---- MODULE Spec2Model ----
(***************************************************************************)
(* Almond: a chained-HMAC bearer token (src/almond.rs) and the caveat      *)
(* verifier that decides whether a token is acceptable (src/verifier.rs).  *)
(*                                                                         *)
(* Byte strings (&[u8], Vec<u8>) are sequences of integers 0..255.         *)
(* Option<T> is a sequence of length at most one: None is <<>> and         *)
(* Some(x) is <<x>>.                                                       *)
(***************************************************************************)
EXTENDS Integers, Sequences, FiniteSets, TLC

VARIABLES
    secret,     \* the key the issuer passed to Almond::create
    almond,     \* Option<Almond>: the issuer's token
    wire,       \* Option<Vec<u8>>: the serialized token in the holder's hands
    sent,       \* Option<Almond>: the token the bytes of wire stand for when
                \* only serialize_binary and honest holders have touched them
    attack,     \* what a dishonest holder did to wire (history variable)
    parseKey,   \* Option<key>: the key of the last parse_and_validate call
    parsed,     \* the result of the last parse_and_validate call
    verifier,   \* Option<Verifier>: the verifier borrowed from almond
    expected,   \* the (generation, almond_type) given to Verifier::new
    verdict,    \* Option<bool>: what the last verify() call returned
    ruled,      \* whether a rule was applied to verifier (history variable)
    lastRule,   \* the last logged rule call on verifier (history variable)
    failed      \* the entries of verifier a logged satisfies predicate
                \* returned false for, or a logged satisfies_exact
                \* comparison failed for (history variable)

vars == <<secret, almond, wire, sent, attack, parseKey, parsed,
          verifier, expected, verdict, ruled, lastRule, failed>>

(***************************************************************************)
(* Bounds and input sets                                                   *)
(***************************************************************************)

\* The largest number of caveats a token of the model carries.
MaxCaveats == 2

NL == 10        \* b'\n'
SP == 32        \* b' '

None == <<>>
Some(x) == <<x>>

\* Sample inputs; 97 and 98 are the letters a and b.
SecretKeys == {<<97>>}
ParseKeys == {<<97>>, <<98>>}
Generations == {1}
ExpectedGenerations == {1, 2}
AlmondTypes == {<<>>, <<97>>}
CaveatKeys == {<<97>>, <<98>>}
CaveatValues == {None, Some(<<>>), Some(<<98>>)}
LiteralCaveats == {<<>>, <<97, SP, 98>>, <<97, NL, 98>>}

(***************************************************************************)
(* Byte-string helpers                                                     *)
(***************************************************************************)

Range(s) == {s[i] : i \in 1..Len(s)}

Take(s, n) == SubSeq(s, 1, n)

Drop(s, n) == SubSeq(s, n + 1, Len(s))

RECURSIVE Concat(_)
Concat(ss) == IF ss = <<>> THEN <<>> ELSE Head(ss) \o Concat(Tail(ss))

RECURSIVE SplitAcc(_, _, _, _)
SplitAcc(s, sep, cur, acc) ==
    IF s = <<>> THEN Append(acc, cur)
    ELSE IF Head(s) = sep THEN SplitAcc(Tail(s), sep, <<>>, Append(acc, cur))
    ELSE SplitAcc(Tail(s), sep, Append(cur, Head(s)), acc)

\* slice::split(|c| *c == sep): every separator ends a segment, so a string
\* with n separators has n+1 segments (some possibly empty).
split(s, sep) == SplitAcc(s, sep, <<>>, <<>>)

RECURSIVE IndexOf(_, _, _)
IndexOf(s, b, i) ==
    IF i > Len(s) THEN 0 ELSE IF s[i] = b THEN i ELSE IndexOf(s, b, i + 1)

\* slice::splitn(2, |c| *c == sep): at most two pieces, cut at the first sep.
splitn2(s, sep) ==
    LET i == IndexOf(s, sep, 1)
    IN  IF i = 0 THEN <<s>> ELSE <<Take(s, i - 1), Drop(s, i)>>

(***************************************************************************)
(* Chained-hash primitive                                                  *)
(*                                                                         *)
(* add_to_hash replaces the accumulator by HMAC-SHA256(key = accumulator,  *)
(* message = data).  The digest itself comes from the crypto crate; the    *)
(* model idealises it as a collision-free function into 32-byte arrays:    *)
(* the digest of (accumulator, data) is the list of messages absorbed so   *)
(* far, each written as one length byte (length + 1) followed by its       *)
(* bytes, padded with zeros to 32 bytes.  The seed stands for the empty    *)
(* list.  The encoding is injective as long as it fits the 32 bytes        *)
(* (HashFits below), and like the HMAC it is a function of the             *)
(* accumulator and the message alone.                                      *)
(***************************************************************************)

HashLen == 32

MinLen == 34

\* b"this_is_a_bit_of_arbitrary_data!"
ALMOND_HASH_SEED ==
    <<116, 104, 105, 115, 95, 105, 115, 95, 97, 95, 98, 105, 116, 95, 111,
      102, 95, 97, 114, 98, 105, 116, 114, 97, 114, 121, 95, 100, 97, 116,
      97, 33>>

RECURSIVE AbsorbedEnd(_, _)
AbsorbedEnd(hash, i) ==
    IF i > Len(hash) THEN Len(hash)
    ELSE IF hash[i] = 0 THEN i - 1
    ELSE AbsorbedEnd(hash, i + hash[i])

\* The messages an accumulator has absorbed, in their encoded form.
Absorbed(hash) ==
    IF hash = ALMOND_HASH_SEED THEN <<>> ELSE Take(hash, AbsorbedEnd(hash, 1))

Digest(absorbed) ==
    [i \in 1..HashLen |-> IF i <= Len(absorbed) THEN absorbed[i] ELSE 0]

add_to_hash(hash, data) ==
    Digest(Absorbed(hash) \o <<Len(data) + 1>> \o data)

\* The idealisation is collision-free only while the encoding fits.
HashFits(hash) == hash = ALMOND_HASH_SEED \/ hash[HashLen] = 0

(***************************************************************************)
(* Almond (src/almond.rs)                                                  *)
(***************************************************************************)

\* create with the type absorbed before the generation byte.
create_type_first(key, generation, almond_type) ==
    LET h0 == ALMOND_HASH_SEED
        h1 == add_to_hash(h0, key)
        h2 == add_to_hash(h1, almond_type)
        h3 == add_to_hash(h2, <<generation>>)
    IN  [hash |-> h3, caveats |-> <<>>, generation |-> generation,
         almond_type |-> almond_type]

create(key, generation, almond_type) ==
    LET h0 == ALMOND_HASH_SEED
        h1 == add_to_hash(h0, key)
        h2 == add_to_hash(h1, <<generation>>)
        h3 == add_to_hash(h2, almond_type)
    IN  [hash |-> h3, caveats |-> <<>>, generation |-> generation,
         almond_type |-> almond_type]

add_literal_caveat(self, caveat) ==
    [self EXCEPT !.hash = add_to_hash(self.hash, caveat),
                 !.caveats = Append(self.caveats, caveat)]

\* The caveat bytes add_caveat builds: key, or key 0x20 value.
caveat_bytes(key, value) ==
    IF value # None THEN key \o <<SP>> \o value[1] ELSE key

\* add_caveat inserting the caveat at the front of the list.
add_caveat_front(self, key, value) ==
    LET caveat == caveat_bytes(key, value)
    IN  [self EXCEPT !.hash = add_to_hash(self.hash, caveat),
                     !.caveats = <<caveat>> \o self.caveats]

\* add_caveat validating its input: a caveat with a newline is not added.
add_caveat_checked(self, key, value) ==
    LET caveat == caveat_bytes(key, value)
    IN  IF NL \in Range(caveat) THEN self
        ELSE [self EXCEPT !.hash = add_to_hash(self.hash, caveat),
                          !.caveats = Append(self.caveats, caveat)]

add_caveat(self, key, value) ==
    LET caveat == caveat_bytes(key, value)
    IN  [self EXCEPT !.hash = add_to_hash(self.hash, caveat),
                     !.caveats = Append(self.caveats, caveat)]

RECURSIVE push_caveats(_, _)
push_caveats(result, caveats) ==
    IF caveats = <<>> THEN result
    ELSE push_caveats(result \o Head(caveats) \o <<NL>>, Tail(caveats))

pop(v) == IF v = <<>> THEN v ELSE Take(v, Len(v) - 1)

\* serialize_binary without the final pop: a separator ends the output.
serialize_binary_no_pop(self) ==
    LET r1 == self.hash
        r2 == Append(r1, self.generation)
        r3 == r2 \o self.almond_type
        r4 == Append(r3, NL)
    IN  push_caveats(r4, self.caveats)

serialize_binary(self) ==
    LET r1 == self.hash
        r2 == Append(r1, self.generation)
        r3 == r2 \o self.almond_type
        r4 == Append(r3, NL)
        r5 == push_caveats(r4, self.caveats)
    IN  pop(r5)

Ok(a) == [kind |-> "Ok", almond |-> Some(a)]
Err(e) == [kind |-> e, almond |-> None]
NotParsed == [kind |-> "none", almond |-> None]

RECURSIVE add_literal_caveats(_, _)
add_literal_caveats(self, caveats) ==
    IF caveats = <<>> THEN self
    ELSE add_literal_caveats(add_literal_caveat(self, Head(caveats)),
                             Tail(caveats))

\* parse_and_validate comparing all but the last byte of the hashes.
parse_and_validate_short_compare(key, input) ==
    IF Len(input) < MinLen THEN Err("InvalidAlmond")
    ELSE
        LET hash == Take(input, HashLen)
            generation == input[HashLen + 1]
            split_it == split(Drop(input, HashLen + 1), NL)
            almond_type == Head(split_it)
            a0 == create(key, generation, almond_type)
            a1 == add_literal_caveats(a0, Tail(split_it))
        IN  IF Take(hash, HashLen - 1) = Take(a1.hash, HashLen - 1)
            THEN Ok(a1)
            ELSE Err("IncorrectHash")

\* parse_and_validate asking for the 33 header bytes only.
parse_and_validate_header_only(key, input) ==
    IF Len(input) < HashLen + 1 THEN Err("InvalidAlmond")
    ELSE
        LET hash == Take(input, HashLen)
            generation == input[HashLen + 1]
            split_it == split(Drop(input, HashLen + 1), NL)
            almond_type == Head(split_it)
            a0 == create(key, generation, almond_type)
            a1 == add_literal_caveats(a0, Tail(split_it))
        IN  IF hash = a1.hash THEN Ok(a1) ELSE Err("IncorrectHash")

\* parse_and_validate returning the token as it was before the caveat loop.
parse_and_validate_forgets_caveats(key, input) ==
    IF Len(input) < MinLen THEN Err("InvalidAlmond")
    ELSE
        LET hash == Take(input, HashLen)
            generation == input[HashLen + 1]
            split_it == split(Drop(input, HashLen + 1), NL)
            almond_type == Head(split_it)
            a0 == create(key, generation, almond_type)
            a1 == add_literal_caveats(a0, Tail(split_it))
        IN  IF hash = a1.hash THEN Ok(a0) ELSE Err("IncorrectHash")

parse_and_validate(key, input) ==
    IF Len(input) < MinLen THEN Err("InvalidAlmond")
    ELSE
        LET hash == Take(input, HashLen)
            generation == input[HashLen + 1]
            split_it == split(Drop(input, HashLen + 1), NL)
        IN  IF split_it = <<>> THEN Err("InvalidAlmond")
            ELSE
                LET almond_type == Head(split_it)
                    a0 == create(key, generation, almond_type)
                    a1 == add_literal_caveats(a0, Tail(split_it))
                IN  IF hash = a1.hash THEN Ok(a1)
                    ELSE Err("IncorrectHash")

(***************************************************************************)
(* Verifier (src/verifier.rs)                                              *)
(***************************************************************************)

unwrap_or(opt, default) == IF opt # None THEN opt[1] ELSE default

\* deconstruct cutting at the last 0x20 instead of the first.
deconstruct_last_space(caveat) ==
    LET spaces == {i \in 1..Len(caveat) : caveat[i] = SP}
        i == IF spaces = {} THEN 0
             ELSE CHOOSE m \in spaces : \A n \in spaces : n <= m
    IN  [key |-> IF i = 0 THEN caveat ELSE Take(caveat, i - 1),
         value |-> IF i = 0 THEN None ELSE Some(Drop(caveat, i)),
         accepted |-> None]

deconstruct(caveat) ==
    LET it == splitn2(caveat, SP)
    IN  [key |-> it[1],
         value |-> IF Len(it) > 1 THEN Some(it[2]) ELSE None,
         accepted |-> None]

\* Verifier::new rejecting only when generation and type both differ.
Verifier_new_both_differ(a, generation, almond_type) ==
    [caveats |-> [i \in 1..Len(a.caveats) |-> deconstruct(a.caveats[i])],
     reject |-> (a.generation # generation /\ a.almond_type # almond_type)]

Verifier_new(a, generation, almond_type) ==
    [caveats |-> [i \in 1..Len(a.caveats) |-> deconstruct(a.caveats[i])],
     reject |-> (a.generation # generation \/ a.almond_type # almond_type)]

\* allow accepting every matching entry, decided or not.
allow_overwrite(self, key) ==
    [self EXCEPT !.caveats = [i \in 1..Len(self.caveats) |->
        LET item == self.caveats[i]
        IN  IF item.key = key
            THEN [item EXCEPT !.accepted = Some(TRUE)]
            ELSE item]]

\* allow stopping at the first matching entry.
allow_first_only(self, key) ==
    [self EXCEPT !.caveats = [i \in 1..Len(self.caveats) |->
        LET item == self.caveats[i]
        IN  IF item.key = key /\ \A j \in 1..(i - 1) : self.caveats[j].key # key
            THEN [item EXCEPT !.accepted =
                    IF item.accepted # None THEN item.accepted ELSE Some(TRUE)]
            ELSE item]]

allow(self, key) ==
    [self EXCEPT !.caveats = [i \in 1..Len(self.caveats) |->
        LET item == self.caveats[i]
        IN  IF item.key = key
            THEN [item EXCEPT !.accepted =
                    IF item.accepted # None THEN item.accepted ELSE Some(TRUE)]
            ELSE item]]

\* satisfies rejecting a matching entry that has no value.
satisfies_reject_valueless(self, key, predicate) ==
    [self EXCEPT !.caveats = [i \in 1..Len(self.caveats) |->
        LET item == self.caveats[i]
        IN  IF item.key = key
            THEN [item EXCEPT !.accepted =
                    IF item.value # None
                    THEN LET res == item.value[1] \in predicate
                         IN  Some(res /\ unwrap_or(item.accepted, TRUE))
                    ELSE Some(FALSE)]
            ELSE item]]

\* satisfies storing the predicate's result without the prior decision.
satisfies_overwrite(self, key, predicate) ==
    [self EXCEPT !.caveats = [i \in 1..Len(self.caveats) |->
        LET item == self.caveats[i]
        IN  IF item.key = key
            THEN [item EXCEPT !.accepted =
                    IF item.value # None
                    THEN Some(item.value[1] \in predicate)
                    ELSE None]
            ELSE item]]

\* A predicate is the set of values it returns true for.
satisfies(self, key, predicate) ==
    [self EXCEPT !.caveats = [i \in 1..Len(self.caveats) |->
        LET item == self.caveats[i]
        IN  IF item.key = key
            THEN [item EXCEPT !.accepted =
                    IF item.value # None
                    THEN LET res == item.value[1] \in predicate
                         IN  Some(res /\ unwrap_or(item.accepted, TRUE))
                    ELSE None]
            ELSE item]]

\* satisfies_exact comparing an absent value as the empty byte string.
satisfies_exact_empty_is_absent(self, key, value) ==
    [self EXCEPT !.caveats = [i \in 1..Len(self.caveats) |->
        LET item == self.caveats[i]
        IN  IF item.key = key
            THEN LET res == unwrap_or(item.value, <<>>) = unwrap_or(value, <<>>)
                 IN  [item EXCEPT !.accepted =
                        Some(res /\ unwrap_or(item.accepted, TRUE))]
            ELSE item]]

\* satisfies_exact forgetting the decision the entry had.
satisfies_exact_overwrite(self, key, value) ==
    [self EXCEPT !.caveats = [i \in 1..Len(self.caveats) |->
        LET item == self.caveats[i]
        IN  IF item.key = key
            THEN [item EXCEPT !.accepted = Some(item.value = value)]
            ELSE item]]

\* satisfies_exact deciding undecided entries only: the first call wins.
satisfies_exact_first_wins(self, key, value) ==
    [self EXCEPT !.caveats = [i \in 1..Len(self.caveats) |->
        LET item == self.caveats[i]
        IN  IF item.key = key /\ item.accepted = None
            THEN [item EXCEPT !.accepted = Some(item.value = value)]
            ELSE item]]

satisfies_exact(self, key, value) ==
    [self EXCEPT !.caveats = [i \in 1..Len(self.caveats) |->
        LET item == self.caveats[i]
        IN  IF item.key = key
            THEN LET res == item.value = value
                 IN  [item EXCEPT !.accepted =
                        Some(res /\ unwrap_or(item.accepted, TRUE))]
            ELSE item]]

\* verify counting an undecided entry as accepted.
verify_default_accept(self) ==
    /\ ~self.reject
    /\ \A i \in 1..Len(self.caveats) :
            unwrap_or(self.caveats[i].accepted, TRUE)

verify(self) ==
    /\ ~self.reject
    /\ \A i \in 1..Len(self.caveats) :
            unwrap_or(self.caveats[i].accepted, FALSE)

(***************************************************************************)
(* State machine                                                           *)
(***************************************************************************)

NoAttack == [kind |-> "none", i |-> 0, j |-> 0]

NoRule == [op |-> "none", key |-> <<>>]

RuleKeys == {<<97>>, <<98>>, <<>>}
RuleValues == {None, Some(<<>>), Some(<<98>>)}
Predicates == {{}, {<<98>>}, {<<>>, <<98>>}}

Init ==
    /\ secret = None
    /\ almond = None
    /\ wire = None
    /\ sent = None
    /\ attack = NoAttack
    /\ parseKey = None
    /\ parsed = NotParsed
    /\ verifier = None
    /\ expected = None
    /\ verdict = None
    /\ ruled = FALSE
    /\ lastRule = NoRule
    /\ failed = {}

tokenVars == <<secret, almond>>
wireVars == <<wire, sent, attack, parseKey, parsed>>
verifierVars == <<verifier, expected, verdict, ruled, lastRule, failed>>

\* Almond::create
Create(key, generation, almond_type) ==
    /\ almond = None
    /\ secret' = Some(key)
    /\ almond' = Some(create(key, generation, almond_type))
    /\ UNCHANGED <<wireVars, verifierVars>>

\* A token is appended to by its owner until it is serialized and handed
\* over, and only while no Verifier borrows it.
Appendable ==
    /\ almond # None
    /\ wire = None
    /\ verifier = None
    /\ Len(almond[1].caveats) < MaxCaveats

\* Almond::add_caveat
AddCaveat(key, value) ==
    /\ Appendable
    /\ almond' = Some(add_caveat(almond[1], key, value))
    /\ UNCHANGED <<secret, wireVars, verifierVars>>

\* Almond::add_literal_caveat
AddLiteralCaveat(caveat) ==
    /\ Appendable
    /\ almond' = Some(add_literal_caveat(almond[1], caveat))
    /\ UNCHANGED <<secret, wireVars, verifierVars>>

PublicFields(a) ==
    [generation |-> a.generation, almond_type |-> a.almond_type,
     caveats |-> a.caveats]

\* Almond::serialize_binary
Serialize ==
    /\ almond # None
    /\ wire = None
    /\ wire' = Some(serialize_binary(almond[1]))
    /\ sent' = Some(PublicFields(almond[1]))
    /\ UNCHANGED <<tokenVars, attack, parseKey, parsed, verifierVars>>

\* A holder without the key narrows the token it holds: the new accumulator
\* is the embedded one extended with the caveat, and the caveat is appended
\* after a separator.
HolderExtend(caveat) ==
    /\ wire # None
    /\ attack = NoAttack
    /\ Len(sent[1].caveats) < MaxCaveats
    /\ wire' = Some(add_to_hash(Take(wire[1], HashLen), caveat)
                    \o Drop(wire[1], HashLen) \o <<NL>> \o caveat)
    /\ sent' = Some([sent[1] EXCEPT !.caveats = Append(@, caveat)])
    /\ parseKey' = None
    /\ parsed' = NotParsed
    /\ UNCHANGED <<tokenVars, attack, verifierVars>>

\* Almond::parse_and_validate
Parse(key) ==
    /\ wire # None
    /\ parseKey' = Some(key)
    /\ parsed' = parse_and_validate(key, wire[1])
    /\ UNCHANGED <<tokenVars, wire, sent, attack, verifierVars>>

\* Verifier::new
VerifierNew(generation, almond_type) ==
    /\ almond # None
    /\ verifier' = Some(Verifier_new(almond[1], generation, almond_type))
    /\ expected' = Some([generation |-> generation,
                         almond_type |-> almond_type])
    /\ verdict' = None
    /\ ruled' = FALSE
    /\ lastRule' = NoRule
    /\ failed' = {}
    /\ UNCHANGED <<tokenVars, wireVars>>

\* Verifier::allow
Allow(key) ==
    /\ verifier # None
    /\ verifier' = Some(allow(verifier[1], key))
    /\ verdict' = None
    /\ ruled' = TRUE
    /\ UNCHANGED <<tokenVars, wireVars, expected, lastRule, failed>>

\* Verifier::satisfies
Satisfies(key, predicate) ==
    /\ verifier # None
    /\ verifier' = Some(satisfies(verifier[1], key, predicate))
    /\ verdict' = None
    /\ ruled' = TRUE
    /\ UNCHANGED <<tokenVars, wireVars, expected, lastRule, failed>>

\* Verifier::satisfies_exact
SatisfiesExact(key, value) ==
    /\ verifier # None
    /\ verifier' = Some(satisfies_exact(verifier[1], key, value))
    /\ verdict' = None
    /\ ruled' = TRUE
    /\ UNCHANGED <<tokenVars, wireVars, expected, lastRule, failed>>

\* Verifier::verify
Verify ==
    /\ verifier # None
    /\ verdict' = Some(verify(verifier[1]))
    /\ UNCHANGED <<tokenVars, wireVars, verifier, expected, ruled, lastRule,
                   failed>>

(***************************************************************************)
(* The same rule calls, logged: lastRule names the call and failed         *)
(* collects the entries whose predicate or comparison came out false.      *)
(***************************************************************************)

Matching(self, key) == {i \in 1..Len(self.caveats) : self.caveats[i].key = key}

Logged(op, key, result, failing) ==
    /\ verifier # None
    /\ verifier' = Some(result)
    /\ verdict' = None
    /\ ruled' = TRUE
    /\ lastRule' = [op |-> op, key |-> key]
    /\ failed' = failed \cup failing
    /\ UNCHANGED <<tokenVars, wireVars, expected>>

\* Verifier::allow
AllowLogged(key) ==
    Logged("allow", key, allow(verifier[1], key), {})

\* Verifier::satisfies
SatisfiesLogged(key, predicate) ==
    Logged("satisfies", key, satisfies(verifier[1], key, predicate),
           {i \in Matching(verifier[1], key) :
                /\ verifier[1].caveats[i].value # None
                /\ verifier[1].caveats[i].value[1] \notin predicate})

\* Verifier::satisfies_exact
SatisfiesExactLogged(key, value) ==
    Logged("satisfies_exact", key, satisfies_exact(verifier[1], key, value),
           {i \in Matching(verifier[1], key) :
                verifier[1].caveats[i].value # value})

(***************************************************************************)
(* A dishonest holder: each of these rewrites the bytes in flight once     *)
(* (caveats may be dropped one after another) and keeps the embedded hash. *)
(***************************************************************************)

FlipBytes == {NL, 97}
TruncateTo == {0, HashLen, HashLen + 1, MinLen}

Region(bytes) == Drop(bytes, HashLen + 1)

Segments(bytes) == split(Region(bytes), NL)

RECURSIVE Join(_)
Join(segs) ==
    IF Len(segs) <= 1 THEN Concat(segs)
    ELSE Head(segs) \o <<NL>> \o Join(Tail(segs))

Without(s, i) == Take(s, i - 1) \o Drop(s, i)

Swapped(s, i, j) == [s EXCEPT ![i] = s[j], ![j] = s[i]]

Rewritten(bytes, kind, i, j) ==
    /\ wire' = Some(bytes)
    /\ attack' = [kind |-> kind, i |-> i, j |-> j]
    /\ parseKey' = None
    /\ parsed' = NotParsed
    /\ UNCHANGED <<tokenVars, sent, verifierVars>>

\* One byte of the serialization is changed.
Tamper(i, b) ==
    /\ wire # None
    /\ attack = NoAttack
    /\ i \in 1..Len(wire[1])
    /\ b # wire[1][i]
    /\ Rewritten([wire[1] EXCEPT ![i] = b], "tamper", i, 0)

\* The serialization is cut to its first n bytes.
Truncate(n) ==
    /\ wire # None
    /\ attack = NoAttack
    /\ n < Len(wire[1])
    /\ Rewritten(Take(wire[1], n), "truncate", n, 0)

\* The i-th caveat is taken out of the caveat list.
DropCaveat(i) ==
    /\ wire # None
    /\ attack.kind \in {"none", "drop"}
    /\ Len(wire[1]) >= HashLen + 1
    /\ LET segs == Segments(wire[1])
       IN  /\ i \in 2..Len(segs)
           /\ Rewritten(Take(wire[1], HashLen + 1) \o Join(Without(segs, i)),
                        "drop", attack.i + 1, 0)

\* Two different caveats change places.
SwapCaveats(i, j) ==
    /\ wire # None
    /\ attack = NoAttack
    /\ LET segs == Segments(wire[1])
       IN  /\ i \in 2..Len(segs)
           /\ j \in (i + 1)..Len(segs)
           /\ segs[i] # segs[j]
           /\ Rewritten(Take(wire[1], HashLen + 1) \o Join(Swapped(segs, i, j)),
                        "swap", i - 1, j - 1)

MaxWire == HashLen + 1 + 4 * (MaxCaveats + 1)

Next ==
    \/ \E k \in SecretKeys, g \in Generations, t \in AlmondTypes : Create(k, g, t)
    \/ \E k \in CaveatKeys, v \in CaveatValues : AddCaveat(k, v)
    \/ \E c \in LiteralCaveats : AddLiteralCaveat(c)
    \/ Serialize
    \/ \E c \in LiteralCaveats : HolderExtend(c)
    \/ \E k \in ParseKeys : Parse(k)

\* The honest life of a token: built, serialized, narrowed by holders, parsed.
Spec == Init /\ [][Next]_vars

NextAttack ==
    \/ \E k \in SecretKeys, g \in Generations, t \in AlmondTypes : Create(k, g, t)
    \/ \E k \in CaveatKeys, v \in CaveatValues : AddCaveat(k, v)
    \/ \E c \in LiteralCaveats : AddLiteralCaveat(c)
    \/ Serialize
    \/ \E i \in 1..MaxWire, b \in FlipBytes : Tamper(i, b)
    \/ \E n \in TruncateTo : Truncate(n)
    \/ \E i \in 2..(MaxCaveats + 2) : DropCaveat(i)
    \/ \E i \in 2..(MaxCaveats + 2), j \in 2..(MaxCaveats + 2) : SwapCaveats(i, j)
    \/ \E k \in ParseKeys : Parse(k)

\* The same token in the hands of a holder who rewrites its bytes.
SpecAttack == Init /\ [][NextAttack]_vars

NextVerifier ==
    \/ \E k \in SecretKeys, g \in Generations, t \in AlmondTypes : Create(k, g, t)
    \/ \E k \in CaveatKeys, v \in CaveatValues : AddCaveat(k, v)
    \/ \E c \in LiteralCaveats : AddLiteralCaveat(c)
    \/ Serialize
    \/ \E g \in ExpectedGenerations, t \in AlmondTypes : VerifierNew(g, t)
    \/ \E k \in RuleKeys : Allow(k)
    \/ \E k \in RuleKeys, p \in Predicates : Satisfies(k, p)
    \/ \E k \in RuleKeys, v \in RuleValues : SatisfiesExact(k, v)
    \/ Verify

\* A token and the verifier built on it.
SpecVerifier == Init /\ [][NextVerifier]_vars

\* The rule calls read the caveats of a token only: one type is enough.
RuleTypes == {<<97>>}

NextRules ==
    \/ \E k \in SecretKeys, g \in Generations, t \in RuleTypes : Create(k, g, t)
    \/ \E k \in CaveatKeys, v \in CaveatValues : AddCaveat(k, v)
    \/ \E g \in ExpectedGenerations, t \in RuleTypes : VerifierNew(g, t)
    \/ \E k \in RuleKeys : AllowLogged(k)
    \/ \E k \in RuleKeys, p \in Predicates : SatisfiesLogged(k, p)
    \/ \E k \in RuleKeys, v \in RuleValues : SatisfiesExactLogged(k, v)
    \/ Verify

\* A token and the verifier built on it, with the rule calls logged.
SpecRules == Init /\ [][NextRules]_vars

\* Fields with separator bytes in them: 0x0A in the type, in caveat values
\* and in literal caveats, 0x20 in keys and more than once in a caveat.
WideTypes == {<<97>>, <<NL>>, <<97, NL>>}
WideKeys == {<<97>>, <<97, SP>>}
WideValues == {None, Some(<<>>), Some(<<SP, 98>>), Some(<<NL>>)}
WideLiterals == {<<>>, <<NL>>, <<SP>>}

NextWide ==
    \/ \E k \in SecretKeys, g \in Generations, t \in WideTypes : Create(k, g, t)
    \/ \E k \in WideKeys, v \in WideValues : AddCaveat(k, v)
    \/ \E c \in WideLiterals : AddLiteralCaveat(c)
    \/ Serialize
    \/ \E k \in ParseKeys : Parse(k)
    \/ \E g \in ExpectedGenerations, t \in RuleTypes : VerifierNew(g, t)

\* Tokens built from unvalidated fields, serialized, parsed, deconstructed.
SpecWide == Init /\ [][NextWide]_vars

\* The rule calls as values: the method, its key and its argument.
Calls ==
    {[op |-> "allow", key |-> k, predicate |-> {}, value |-> None] :
        k \in RuleKeys}
    \cup {[op |-> "satisfies", key |-> k, predicate |-> p, value |-> None] :
            k \in RuleKeys, p \in Predicates}
    \cup {[op |-> "satisfies_exact", key |-> k, predicate |-> {}, value |-> v] :
            k \in RuleKeys, v \in RuleValues}

Apply(self, call) ==
    CASE call.op = "allow" -> allow(self, call.key)
      [] call.op = "satisfies" -> satisfies(self, call.key, call.predicate)
      [] call.op = "satisfies_exact" ->
            satisfies_exact(self, call.key, call.value)

NextOrder ==
    \/ \E k \in SecretKeys, g \in Generations, t \in RuleTypes : Create(k, g, t)
    \/ \E k \in CaveatKeys, v \in CaveatValues : AddCaveat(k, v)
    \/ \E g \in ExpectedGenerations, t \in RuleTypes : VerifierNew(g, t)
    \/ \E k \in RuleKeys : Allow(k)
    \/ \E k \in RuleKeys, p \in Predicates : Satisfies(k, p)
    \/ \E k \in RuleKeys, v \in RuleValues : SatisfiesExact(k, v)
    \/ Verify

\* A token and the verifier built on it, under every sequence of rule calls.
SpecOrder == Init /\ [][NextOrder]_vars

(***************************************************************************)
(* Definitions the properties share                                        *)
(***************************************************************************)

NewlineFree(bytes) == NL \notin Range(bytes)

FieldsNewlineFree(a) ==
    /\ NewlineFree(a.almond_type)
    /\ \A i \in 1..Len(a.caveats) : NewlineFree(a.caveats[i])

RECURSIVE ExtendAll(_, _)
ExtendAll(acc, messages) ==
    IF messages = <<>> THEN acc
    ELSE ExtendAll(add_to_hash(acc, Head(messages)), Tail(messages))

\* The chain value of a token: the seed extended with the key, the
\* generation byte, the type and every caveat, in this order.
Chain(key, generation, almond_type, caveats) ==
    ExtendAll(ALMOND_HASH_SEED,
              <<key, <<generation>>, almond_type>> \o caveats)

Front(s) == Take(s, Len(s) - 1)

Last(s) == s[Len(s)]

HolderExtended ==
    /\ almond # None
    /\ sent # None
    /\ Len(sent[1].caveats) > Len(almond[1].caveats)

ParsedWith(key) == parsed.kind # "none" /\ parseKey = key

\* Every accumulator of the state is inside the range where the idealised
\* digest is collision-free.
IdealHashFits ==
    /\ almond # None => HashFits(almond[1].hash)
    /\ parsed.almond # None => HashFits(parsed.almond[1].hash)
    /\ (wire # None /\ parseKey # None /\ Len(wire[1]) >= MinLen) =>
            HashFits(Chain(parseKey[1], wire[1][HashLen + 1],
                           Head(Segments(wire[1])), Tail(Segments(wire[1]))))

(***************************************************************************)
(* C1. Round trip: parsing the serialization of a token built by create    *)
(* and add_caveat/add_literal_caveat from newline-free fields, with the    *)
(* key it was created with, returns Ok with the same generation, type,     *)
(* caveats and hash.                                                       *)
(***************************************************************************)
RoundTrip ==
    (/\ ParsedWith(secret)
     /\ attack = NoAttack
     /\ ~HolderExtended
     /\ FieldsNewlineFree(almond[1]))
    => /\ parsed.kind = "Ok"
       /\ parsed.almond = almond

(***************************************************************************)
(* C2. Fail-closed verification: verify() returns true exactly when the    *)
(* reject flag is clear and every entry is accepted; an unknown or         *)
(* rejected entry makes it false, and so does a token with a caveat and    *)
(* no rule applied.                                                        *)
(***************************************************************************)
FailClosed ==
    verdict # None =>
        LET v == verifier[1]
            entries == 1..Len(v.caveats)
        IN  /\ verdict[1] = (/\ v.reject = FALSE
                             /\ \A i \in entries :
                                    v.caveats[i].accepted = Some(TRUE))
            /\ (\E i \in entries :
                    v.caveats[i].accepted \in {None, Some(FALSE)})
                    => verdict[1] = FALSE
            /\ (v.caveats # <<>> /\ ~ruled) => verdict[1] = FALSE

FailClosedWitness ==
    /\ verdict = Some(FALSE)
    /\ ~ruled
    /\ ~verifier[1].reject
    /\ Len(verifier[1].caveats) = MaxCaveats

(***************************************************************************)
(* C3. A verifier built with an expected generation or type that differs   *)
(* from the token's has its reject flag set and verify() false in every    *)
(* state its rule calls lead to.                                           *)
(***************************************************************************)
Mismatch ==
    /\ verifier # None
    /\ \/ expected[1].generation # almond[1].generation
       \/ expected[1].almond_type # almond[1].almond_type

MismatchPermanent ==
    Mismatch => /\ verifier[1].reject
                /\ ~verify(verifier[1])
                /\ verdict # Some(TRUE)

MismatchPermanentWitness ==
    /\ Mismatch
    /\ expected[1].generation = almond[1].generation
    /\ ruled
    /\ verifier[1].caveats # <<>>
    /\ \A i \in 1..Len(verifier[1].caveats) :
            verifier[1].caveats[i].accepted = Some(TRUE)
    /\ verdict = Some(FALSE)

(***************************************************************************)
(* C4. Tamper detection: after one byte of the embedded hash or of the     *)
(* type/caveat region of a serialization of at least 34 bytes is changed,  *)
(* parse_and_validate with the original key returns IncorrectHash.         *)
(***************************************************************************)
TamperDetected ==
    (/\ attack.kind = "tamper"
     /\ attack.i # HashLen + 1
     /\ Len(wire[1]) >= 34
     /\ ParsedWith(secret))
    => parsed.kind = "IncorrectHash"

TamperedHashWitness ==
    /\ attack.kind = "tamper"
    /\ attack.i = HashLen
    /\ FieldsNewlineFree(sent[1])
    /\ ParsedWith(secret)
    /\ parsed.kind = "IncorrectHash"

(***************************************************************************)
(* C5. Wrong-key rejection: parsing the serialization of a token with a    *)
(* key other than the one it was created with returns IncorrectHash.       *)
(***************************************************************************)
WrongKeyRejected ==
    (/\ parsed.kind # "none"
     /\ parseKey # secret
     /\ attack = NoAttack)
    => parsed.kind = "IncorrectHash"

(***************************************************************************)
(* C6. Holder extension: the hash after appending a caveat is the previous *)
(* hash extended with that caveat, and the bytes a holder computes from    *)
(* the serialization alone are the serialization of the token with the     *)
(* caveat appended, which the original key accepts.                        *)
(***************************************************************************)
Rebuilt(key, fields) ==
    add_literal_caveats(
        create(key, fields.generation, fields.almond_type), fields.caveats)

HolderExtension ==
    /\ (almond # None /\ almond[1].caveats # <<>>) =>
            LET a == almond[1]
                before == [PublicFields(a) EXCEPT !.caveats = Front(@)]
            IN  a.hash = add_to_hash(Rebuilt(secret[1], before).hash,
                                     Last(a.caveats))
    /\ (HolderExtended /\ attack = NoAttack /\ FieldsNewlineFree(sent[1])) =>
            /\ wire[1] = serialize_binary(Rebuilt(secret[1], sent[1]))
            /\ ParsedWith(secret) =>
                    /\ parsed.kind = "Ok"
                    /\ PublicFields(parsed.almond[1]) = sent[1]

HolderExtensionWitness ==
    /\ HolderExtended
    /\ FieldsNewlineFree(sent[1])
    /\ almond[1].caveats # <<>>
    /\ Len(sent[1].caveats) = MaxCaveats
    /\ ParsedWith(secret)
    /\ parsed.kind = "Ok"

(***************************************************************************)
(* C7. No un-restriction: bytes that keep the embedded hash of a valid     *)
(* token but carry its caveat list with a caveat removed, or with two      *)
(* distinct caveats swapped, are rejected with IncorrectHash under the     *)
(* original key.                                                           *)
(***************************************************************************)
Unrestricted ==
    /\ attack.kind \in {"drop", "swap"}
    /\ FieldsNewlineFree(sent[1])
    /\ ParsedWith(secret)

NoUnrestriction == Unrestricted => parsed.kind = "IncorrectHash"

(***************************************************************************)
(* C8. Hash-chain invariant: the hash of a token is the seed extended with *)
(* the key, the generation byte, the type and each caveat in insertion     *)
(* order, and add_caveat(key, value) appends key, or key 0x20 value.       *)
(***************************************************************************)
HashIsChain ==
    almond # None =>
        almond[1].hash = Chain(secret[1], almond[1].generation,
                               almond[1].almond_type, almond[1].caveats)

AddCaveatContributes ==
    \A k \in CaveatKeys, v \in CaveatValues :
        AddCaveat(k, v) =>
            almond'[1].caveats =
                Append(almond[1].caveats,
                       IF v = None THEN k ELSE k \o <<32>> \o v[1])

HashChainInvariant == []HashIsChain /\ [][AddCaveatContributes]_vars

HashChainWitness ==
    /\ almond # None
    /\ Len(almond[1].caveats) = MaxCaveats
    /\ \E i \in 1..MaxCaveats : SP \in Range(almond[1].caveats[i])
    /\ \E i \in 1..MaxCaveats : SP \notin Range(almond[1].caveats[i])

(***************************************************************************)
(* C9. Append-only token: a step leaves the caveats of an existing token   *)
(* unchanged or appends one caveat at the end, never changes its           *)
(* generation or type, and a Verifier operation changes no field of it.    *)
(***************************************************************************)
AppendOnlyStep ==
    almond # None =>
        /\ almond' # None
        /\ almond'[1].generation = almond[1].generation
        /\ almond'[1].almond_type = almond[1].almond_type
        /\ \/ almond'[1].caveats = almond[1].caveats
           \/ /\ Len(almond'[1].caveats) = Len(almond[1].caveats) + 1
              /\ Front(almond'[1].caveats) = almond[1].caveats
        /\ verifierVars' # verifierVars => almond' = almond

AppendOnly == [][AppendOnlyStep]_vars

AppendOnlyWitness ==
    /\ almond # None
    /\ Len(almond[1].caveats) = MaxCaveats
    /\ wire # None
    /\ ruled
    /\ verdict # None

(***************************************************************************)
(* C10. Parse error kinds: InvalidAlmond exactly for inputs shorter than   *)
(* 34 bytes, whatever their hash; for longer inputs Ok when the recomputed *)
(* chain equals the embedded hash and IncorrectHash otherwise; a token is  *)
(* returned with Ok only.                                                  *)
(***************************************************************************)
HashMatches(key, input) ==
    LET segs == Segments(input)
    IN  Take(input, 32) = Chain(key, input[33], Head(segs), Tail(segs))

ParseErrorKinds ==
    parsed.kind # "none" =>
        LET input == wire[1]
        IN  /\ parsed.kind = "InvalidAlmond" <=> Len(input) < 34
            /\ Len(input) >= 34 =>
                    parsed.kind = IF HashMatches(parseKey[1], input)
                                  THEN "Ok" ELSE "IncorrectHash"
            /\ parsed.almond # None <=> parsed.kind = "Ok"

\* A 33-byte input whose embedded hash is the right one is still invalid.
ParseErrorKindsWitness ==
    /\ parsed.kind = "InvalidAlmond"
    /\ Len(wire[1]) = 33
    /\ HashMatches(parseKey[1], wire[1])

(***************************************************************************)
(* Definitions the rule properties share                                   *)
(***************************************************************************)

Unknown == None
Accepted == Some(TRUE)
Rejected == Some(FALSE)

Entries == IF verifier = None THEN {} ELSE 1..Len(verifier[1].caveats)

Entry(i) == verifier[1].caveats[i]

\* The entries a logged rule call on key matches.
Matched(key) == {i \in Entries : Entry(i).key = key}

\* The decision a rule that came out as passed leaves, given the prior one.
Combined(passed, prior) ==
    IF passed /\ prior \in {Unknown, Accepted} THEN Accepted ELSE Rejected

(***************************************************************************)
(* C11. allow(key) sets the matching entries that are unknown to accepted  *)
(* and leaves every other entry, accepted or rejected, exactly as it was.  *)
(***************************************************************************)
AllowStep ==
    lastRule'.op = "allow" =>
      LET k == lastRule'.key IN
        AllowLogged(k) =>
            /\ Len(verifier'[1].caveats) = Len(verifier[1].caveats)
            /\ \A i \in Entries :
                    verifier'[1].caveats[i] =
                        IF Entry(i).key = k /\ Entry(i).accepted = Unknown
                        THEN [Entry(i) EXCEPT !.accepted = Accepted]
                        ELSE Entry(i)
            /\ \A i \in Entries :
                    Entry(i).accepted = Rejected =>
                        verifier'[1].caveats[i].accepted = Rejected

AllowFillsUnknownOnly == [][AllowStep]_vars

AllowFillsUnknownOnlyWitness ==
    /\ lastRule.op = "allow"
    /\ \E i \in Matched(lastRule.key) : Entry(i).accepted = Rejected
    /\ \E i \in Matched(lastRule.key) : Entry(i).accepted = Accepted

(***************************************************************************)
(* C12. satisfies sets a matching entry without a value to unknown         *)
(* whatever its decision was, allow then accepts it, and no other rule     *)
(* call takes a decided entry back to unknown.                             *)
(***************************************************************************)
SatisfiesResetsStep ==
    /\ lastRule'.op = "satisfies" =>
          LET k == lastRule'.key IN
            \A p \in Predicates : SatisfiesLogged(k, p) =>
                \A i \in Matched(k) :
                    Entry(i).value = None =>
                        verifier'[1].caveats[i].accepted = Unknown
    /\ lastRule'.op = "allow" =>
          LET k == lastRule'.key IN
            AllowLogged(k) =>
                \A i \in Matched(k) :
                    (Entry(i).value = None /\ Entry(i).accepted = Unknown) =>
                        verifier'[1].caveats[i].accepted = Accepted
    /\ (verifier # None /\ lastRule'.op # "none") =>
            \A i \in Entries :
                (Entry(i).accepted # Unknown
                    /\ verifier'[1].caveats[i].accepted = Unknown) =>
                        /\ lastRule'.op = "satisfies"
                        /\ Entry(i).key = lastRule'.key
                        /\ Entry(i).value = None

SameValue(value, wanted) ==
    IF wanted = None THEN Len(value) = 0
    ELSE Len(value) = 1 /\ value[1] = wanted[1]

SatisfiesExactStep ==
    lastRule'.op = "satisfies_exact" =>
      LET k == lastRule'.key IN
        \A v \in RuleValues : SatisfiesExactLogged(k, v) =>
            \A i \in Matched(k) :
                verifier'[1].caveats[i].accepted =
                    Combined(SameValue(Entry(i).value, v), Entry(i).accepted)

SatisfiesExactDecides == [][SatisfiesExactStep]_vars

\* After satisfies_exact(key, None): the entry without a value is accepted,
\* the entry whose value is the empty string is rejected.
SatisfiesExactDecidesWitness ==
    /\ lastRule.op = "satisfies_exact"
    /\ \E i \in Matched(lastRule.key) :
            Entry(i).value = None /\ Entry(i).accepted = Accepted
    /\ \E i \in Matched(lastRule.key) :
            Entry(i).value = Some(<<>>) /\ Entry(i).accepted = Rejected

(***************************************************************************)
(* C14. satisfies(key, predicate) accepts a matching entry with a value    *)
(* when the predicate holds of the value and the decision was unknown or   *)
(* accepted, and rejects it otherwise.                                     *)
(***************************************************************************)
SatisfiesStep ==
    lastRule'.op = "satisfies" =>
      LET k == lastRule'.key IN
        \A p \in Predicates : SatisfiesLogged(k, p) =>
            \A i \in Matched(k) :
                Entry(i).value # None =>
                    verifier'[1].caveats[i].accepted =
                        Combined(Entry(i).value[1] \in p, Entry(i).accepted)

SatisfiesDecides == [][SatisfiesStep]_vars

SatisfiesDecidesWitness ==
    /\ lastRule.op = "satisfies"
    /\ \E i \in Matched(lastRule.key) :
            Entry(i).value # None /\ Entry(i).accepted = Accepted
    /\ \E i \in Matched(lastRule.key) :
            Entry(i).value # None /\ Entry(i).accepted = Rejected

(***************************************************************************)
(* C15. Once a satisfies predicate returned false for a caveat, or a       *)
(* satisfies_exact comparison failed for a caveat, verify() is false.      *)
(***************************************************************************)
RejectionSticks ==
    (failed # {} /\ verdict # None) => verdict = Some(FALSE)

(***************************************************************************)
(* C16. After satisfies(key, predicate), every entry whose key matches and *)
(* which has no value is rejected.                                         *)
(***************************************************************************)
SatisfiesRejectsValueless ==
    lastRule.op = "satisfies" =>
        \A i \in Matched(lastRule.key) :
            Entry(i).value = None => Entry(i).accepted = Rejected

(***************************************************************************)
(* C17. Re-serialization: a token parse_and_validate returns serializes    *)
(* to the bytes it was parsed from.                                        *)
(***************************************************************************)
ReserializeIdentity ==
    parsed.kind = "Ok" => serialize_binary(parsed.almond[1]) = wire[1]

\* An accepted input with an empty type segment and an empty last segment.
ReserializeIdentityWitness ==
    /\ parsed.kind = "Ok"
    /\ Len(Segments(wire[1])) > 2
    /\ Head(Segments(wire[1])) = <<>>
    /\ Last(Segments(wire[1])) = <<>>

(***************************************************************************)
(* C18. Construction never fails and never validates: create, add_caveat   *)
(* and add_literal_caveat accept every byte string, 0x0A included, store   *)
(* it verbatim and extend the hash with it as one message;                 *)
(* serialize_binary emits the fields unescaped, and parsing the            *)
(* serialization of a token with a 0x0A in a field, with the right key,    *)
(* does not return a token with the original type and caveats.             *)
(***************************************************************************)
CreateAccepts ==
    almond = None =>
        \A k \in SecretKeys, g \in Generations, t \in WideTypes :
            ENABLED (/\ Create(k, g, t)
                     /\ almond'[1].almond_type = t
                     /\ almond'[1].caveats = <<>>
                     /\ almond'[1].hash =
                            ExtendAll(ALMOND_HASH_SEED, <<k, <<g>>, t>>))

Appended(a, caveat) ==
    /\ a.caveats = Append(almond[1].caveats, caveat)
    /\ a.hash = ExtendAll(almond[1].hash, <<caveat>>)
    /\ a.almond_type = almond[1].almond_type
    /\ a.generation = almond[1].generation

AddCaveatAccepts ==
    Appendable =>
        /\ \A k \in WideKeys, v \in WideValues :
                ENABLED (/\ AddCaveat(k, v)
                         /\ Appended(almond'[1],
                                     IF v = None THEN k
                                     ELSE k \o <<32>> \o v[1]))
        /\ \A c \in WideLiterals :
                ENABLED (AddLiteralCaveat(c) /\ Appended(almond'[1], c))

EmittedUnescaped ==
    wire # None =>
        /\ Take(wire[1], HashLen) = almond[1].hash
        /\ wire[1][HashLen + 1] = almond[1].generation
        /\ Region(wire[1]) =
                Join(<<almond[1].almond_type>> \o almond[1].caveats)

NewlineCorrupts ==
    (/\ wire # None
     /\ ~FieldsNewlineFree(almond[1])
     /\ ParsedWith(secret)) =>
        ~(/\ parsed.kind = "Ok"
          /\ parsed.almond[1].almond_type = almond[1].almond_type
          /\ parsed.almond[1].caveats = almond[1].caveats)

ConstructionUnchecked ==
    /\ CreateAccepts
    /\ AddCaveatAccepts
    /\ EmittedUnescaped
    /\ NewlineCorrupts

\* A token with a newline in a caveat value, stored verbatim, serialized
\* and parsed with its key: the parse fails.
ConstructionUncheckedWitness ==
    /\ almond # None
    /\ NewlineFree(almond[1].almond_type)
    /\ \E i \in 1..Len(almond[1].caveats) :
            almond[1].caveats[i] = <<97, SP, NL>>
    /\ ParsedWith(secret)
    /\ parsed.kind = "IncorrectHash"

(***************************************************************************)
(* C19. Rule scope: a rule call treats all entries with its key alike,     *)
(* leaves the decision of every other entry, every key, every value, the   *)
(* number of entries and the reject flag unchanged, and changes nothing    *)
(* when no entry has its key.                                              *)
(***************************************************************************)
RuleScopeStep ==
    (verifier # None /\ lastRule'.op # "none") =>
        LET k == lastRule'.key
            after == verifier'[1]
        IN  /\ Len(after.caveats) = Len(verifier[1].caveats)
            /\ after.reject = verifier[1].reject
            /\ \A i \in Entries :
                    /\ after.caveats[i].key = Entry(i).key
                    /\ after.caveats[i].value = Entry(i).value
                    /\ Entry(i).key # k =>
                            after.caveats[i].accepted = Entry(i).accepted
            /\ \A i, j \in Matched(k) :
                    (/\ Entry(i).value = Entry(j).value
                     /\ Entry(i).accepted = Entry(j).accepted) =>
                        after.caveats[i].accepted = after.caveats[j].accepted
            /\ Matched(k) = {} => after = verifier[1]

RuleScope == [][RuleScopeStep]_vars

\* Two entries with the key of the last call, both accepted.
RuleScopeWitness ==
    /\ lastRule.op = "satisfies_exact"
    /\ Cardinality(Matched(lastRule.key)) >= 2
    /\ \A i \in Entries : Entry(i).accepted = Accepted

(***************************************************************************)
(* C20. Key/value split: Verifier::new creates one entry per caveat, in    *)
(* order, undecided; the key is the bytes before the first 0x20 (the whole *)
(* caveat when it has none), the value everything after it (absent when    *)
(* there is none, empty when the caveat ends with it, later 0x20 bytes     *)
(* staying in the value).  So for a key without 0x20 the entry built from  *)
(* add_caveat(key, value) has that key and that optional value.            *)
(***************************************************************************)
\* The length of the longest prefix without a 0x20 byte.
KeyLen(caveat) ==
    CHOOSE n \in 0..Len(caveat) :
        /\ \A j \in 1..n : caveat[j] # SP
        /\ n < Len(caveat) => caveat[n + 1] = SP

SplitEntry(caveat) ==
    LET n == KeyLen(caveat)
    IN  [key |-> Take(caveat, n),
         value |-> IF n = Len(caveat) THEN None
                   ELSE Some(Drop(caveat, n + 1)),
         accepted |-> Unknown]

EntriesSplitCaveats ==
    (verifier # None /\ ~ruled) =>
        /\ Len(verifier[1].caveats) = Len(almond[1].caveats)
        /\ \A i \in Entries : Entry(i) = SplitEntry(almond[1].caveats[i])

AddCaveatSplitsBack ==
    Appendable =>
        \A k \in WideKeys, v \in WideValues :
            SP \notin Range(k) =>
                ENABLED (/\ AddCaveat(k, v)
                         /\ LET a == almond'[1]
                                new == Verifier_new(a, a.generation,
                                                    a.almond_type)
                            IN  /\ Len(new.caveats) = Len(a.caveats)
                                /\ Last(new.caveats) =
                                      [key |-> k, value |-> v,
                                       accepted |-> Unknown])

KeyValueSplit == EntriesSplitCaveats /\ AddCaveatSplitsBack

\* A fresh verifier with an entry whose value keeps a later 0x20 and an
\* entry whose value is empty because the caveat ends with its first 0x20.
KeyValueSplitWitness ==
    /\ verifier # None
    /\ ~ruled
    /\ \E i \in Entries : Entry(i).value = Some(<<SP, SP, 98>>)
    /\ \E i \in Entries : almond[1].caveats[i] = <<97, SP>>
                          /\ Entry(i).value = Some(<<>>)

(***************************************************************************)
(* C22. Rejection of a valued caveat is absorbing: once an entry that has  *)
(* a value is rejected, no allow, satisfies or satisfies_exact call makes  *)
(* it accepted or unknown, and verify() is false for the rest of the       *)
(* verifier's life.                                                        *)
(***************************************************************************)
ValuedRejected(i) ==
    Entry(i).value # None /\ Entry(i).accepted = Rejected

ValuedRejectionStep ==
    (verifier # None /\ lastRule'.op # "none") =>
        /\ Len(verifier'[1].caveats) = Len(verifier[1].caveats)
        /\ \A i \in Entries :
                ValuedRejected(i) =>
                    /\ verifier'[1].caveats[i].value = Entry(i).value
                    /\ verifier'[1].caveats[i].accepted = Rejected

ValuedRejectionFails ==
    (verdict # None /\ \E i \in Entries : ValuedRejected(i)) =>
        verdict = Some(FALSE)

ValuedRejectionAbsorbing ==
    []ValuedRejectionFails /\ [][ValuedRejectionStep]_vars

\* An entry with a value whose comparison failed, later passed to allow on
\* its key: it is still rejected and verify() returned false.
ValuedRejectionAbsorbingWitness ==
    /\ lastRule.op = "allow"
    /\ \E i \in Matched(lastRule.key) \cap failed : ValuedRejected(i)
    /\ ~verifier[1].reject
    /\ verdict = Some(FALSE)

(***************************************************************************)
(* C21. Order independence for valued caveats: when every caveat of the    *)
(* token has a value, the decisions of the entries and the result of       *)
(* verify() after a finite collection of allow, satisfies and              *)
(* satisfies_exact calls do not depend on the order of the calls.  Stated  *)
(* on every verifier any sequence of calls reaches: any two calls give the *)
(* same verifier in both orders, so exchanging neighbours, and with it     *)
(* every reordering of a sequence, changes nothing.                        *)
(***************************************************************************)
AllValued(self) ==
    \A i \in 1..Len(self.caveats) : self.caveats[i].value # None

Commute(self, c, d) ==
    LET cd == Apply(Apply(self, c), d)
        dc == Apply(Apply(self, d), c)
    IN  /\ cd = dc
        /\ verify(cd) = verify(dc)

OrderIndependent ==
    (verifier # None /\ AllValued(verifier[1])) =>
        \A c, d \in Calls : Commute(verifier[1], c, d)

\* A verifier on a token of valued caveats only, after rule calls that left
\* one entry accepted and one rejected, and after verify().
OrderIndependentWitness ==
    /\ verifier # None
    /\ ruled
    /\ Len(verifier[1].caveats) >= 2
    /\ AllValued(verifier[1])
    /\ \E i \in Entries : Entry(i).accepted = Accepted
    /\ \E i \in Entries : Entry(i).accepted = Rejected
    /\ verdict = Some(FALSE)

====
